---- MODULE Spec2Model ----
(***************************************************************************)
(* A model of picotui's terminal layer: picotui/basewidget.py (Widget,     *)
(* ChoiceWidget, ItemSelWidget) and picotui/screen.py (Screen).            *)
(*                                                                         *)
(* Bytes are integers 0..255 and a bytes object is a sequence of them.     *)
(* Python values of mixed type (None / bool / int, str / bytes / list) are *)
(* records with a tag so that they can be compared.                        *)
(***************************************************************************)
EXTENDS Integers, Sequences, FiniteSets, TLC

VARIABLES
    kbuf,        \* Widget.kbuf: the lookahead buffer (bytes)
    signals,     \* Widget.signals of every widget instance: name -> handler
    choice,      \* ChoiceWidget.choice
    items,       \* ItemSelWidget.items
    pc,          \* where the caller of the widget stands (idle, or inside loop())
    key,         \* loop(): the local `key`, the value get_input() returned
    res,         \* loop(): the local `res`, the value handle_input() returned
    ret,         \* the value loop() returned to its caller
    raised,      \* the exception the last operation ended with, or "none"
    reads,       \* the sizes of the os.read calls the last get_input() issued
    handled,     \* the handler calls the last handle_input() made
    invoked,     \* the callbacks the last signal() made, as <<handler, argument>>
    log,         \* the last few steps of the running loop(), oldest first
    kbuf_pre,    \* history: kbuf when the last get_input() was entered
    last_read,   \* history: the chunk the most recent os.read returned
    served,      \* history: the values get_input() returned since that read
    last_on,     \* history: per widget and name, the handler of the latest on()
    last_sig,    \* history: the <<widget, name>> of the last signal() call
    sel_start,   \* history: choice before the moves listed in sel_dirs
    sel_dirs,    \* history: the directions of the last one or two move_sel calls
    sel_trace,   \* history: what the last move_sel did after storing choice, in order
    isatty,      \* whether fd 0 is a terminal
    termios,     \* the terminal attributes of fd 0, as the OS holds them
    org_termios, \* Screen.org_termios (a class attribute; unset until init_tty)
    pre_init,    \* history: termios when the last successful init_tty was entered
    tty_op,      \* history: the last terminal-mode call and how it ended
    geom,        \* Widget.x, .y (unset until set_xy) and .w, .h
    call         \* the last Screen / geometry call: arguments, bytes written, outcome

widgetVars == <<kbuf, signals, choice, items>>
loopVars   == <<pc, key, res, ret, reads, handled, log, kbuf_pre, last_read, served>>
sigVars    == <<invoked, last_on, last_sig>>
selVars    == <<sel_start, sel_dirs, sel_trace>>
ttyVars    == <<isatty, termios, org_termios, pre_init, tty_op>>
scrVars    == <<geom, call>>
vars       == <<widgetVars, loopVars, sigVars, selVars, ttyVars, scrVars, raised>>

----------------------------------------------------------------------------
(* Bounds of the model.                                                    *)

\* Longest chunk built from ByteAlphabet that a read returns.
MaxChunk == 3
\* Number of distinct callbacks a client registers.
NumHandlers == 2
\* Longest item list of an ItemSelWidget.
MaxItems == 3
\* move_sel directions range over -MaxDir .. MaxDir.
MaxDir == 4
\* Number of steps of loop() the log remembers.
LogWindow == 3

----------------------------------------------------------------------------
(* Python values.                                                          *)

\* None, True / False, and integers, as loop() tells them apart with `is`.
PyNone     == [kind |-> "NoneType", val |-> 0]
PyTrue     == [kind |-> "bool", val |-> 1]
PyFalse    == [kind |-> "bool", val |-> 0]
PyInt(n)   == [kind |-> "int", val |-> n]

\* Standard widget result actions.
ACTION_OK     == 1000
ACTION_CANCEL == 1001
ACTION_NEXT   == 1002
ACTION_PREV   == 1003

\* What handle_key / handle_mouse of a concrete widget may return.
HandlerResults ==
    {PyNone, PyTrue, PyFalse, PyInt(0), PyInt(1),
     PyInt(ACTION_OK), PyInt(ACTION_CANCEL), PyInt(ACTION_NEXT), PyInt(ACTION_PREV)}

\* The three shapes get_input() returns: a list [col, row], a str, bytes.
PyList(col, row) == [tag |-> "list", name |-> "", val |-> <<col, row>>]
PyStr(s)         == [tag |-> "str", name |-> s, val |-> <<>>]
PyBytes(b)       == [tag |-> "bytes", name |-> "", val |-> b]
NoValue          == [tag |-> "unset", name |-> "", val |-> <<>>]

----------------------------------------------------------------------------
(* UTF-8, as bytes.decode() and str.encode() compute it.                   *)

ESC == 27

IsCont(b) == b >= 128 /\ b <= 191

\* Length of the UTF-8 sequence a lead byte announces; 0 for a byte that
\* cannot start one (a continuation byte, 0xC0, 0xC1, 0xF5..0xFF).
Utf8SeqLen(b) ==
    IF b < 128 THEN 1
    ELSE IF b >= 194 /\ b <= 223 THEN 2
    ELSE IF b >= 224 /\ b <= 239 THEN 3
    ELSE IF b >= 240 /\ b <= 244 THEN 4
    ELSE 0

\* Whether s starts with one well-formed UTF-8 sequence (strict decoding:
\* no overlong forms, no surrogates, nothing above U+10FFFF).
Utf8HeadOk(s) ==
    /\ Len(s) >= 1
    /\ LET n == Utf8SeqLen(s[1])
       IN  /\ n >= 1
           /\ Len(s) >= n
           /\ \A i \in 2..n : IsCont(s[i])
           /\ (s[1] = 224 => s[2] >= 160)
           /\ (s[1] = 237 => s[2] <= 159)
           /\ (s[1] = 240 => s[2] >= 144)
           /\ (s[1] = 244 => s[2] <= 143)

RECURSIVE Utf8Valid(_)
Utf8Valid(s) ==
    IF s = <<>> THEN TRUE
    ELSE /\ Utf8HeadOk(s)
         /\ Utf8Valid(SubSeq(s, Utf8SeqLen(s[1]) + 1, Len(s)))

\* The code point of the sequence s starts with.
Utf8HeadChar(s) ==
    LET n == Utf8SeqLen(s[1])
    IN  IF n = 1 THEN s[1]
        ELSE IF n = 2 THEN (s[1] - 192) * 64 + (s[2] - 128)
        ELSE IF n = 3 THEN (s[1] - 224) * 4096 + (s[2] - 128) * 64 + (s[3] - 128)
        ELSE (s[1] - 240) * 262144 + (s[2] - 128) * 4096
             + (s[3] - 128) * 64 + (s[4] - 128)

\* bytes.decode(): the code points of a well-formed s.
RECURSIVE Utf8Decode(_)
Utf8Decode(s) ==
    IF s = <<>> THEN <<>>
    ELSE <<Utf8HeadChar(s)>>
         \o Utf8Decode(SubSeq(s, Utf8SeqLen(s[1]) + 1, Len(s)))

Utf8EncodeChar(c) ==
    IF c < 128 THEN <<c>>
    ELSE IF c < 2048 THEN <<192 + (c \div 64), 128 + (c % 64)>>
    ELSE IF c < 65536
         THEN <<224 + (c \div 4096), 128 + ((c \div 64) % 64), 128 + (c % 64)>>
    ELSE <<240 + (c \div 262144), 128 + ((c \div 4096) % 64),
           128 + ((c \div 64) % 64), 128 + (c % 64)>>

\* str.encode(): the bytes of a sequence of code points.
RECURSIVE Utf8Encode(_)
Utf8Encode(cs) ==
    IF cs = <<>> THEN <<>>
    ELSE Utf8EncodeChar(Head(cs)) \o Utf8Encode(Tail(cs))

----------------------------------------------------------------------------
(* The key table (picotui/defs.py, KEYMAP): raw byte sequences that have a *)
(* symbolic name.  The decoder only looks candidates up in it.             *)

KEYMAP ==
    (<<ESC>> :> "KEY_ESC") @@ (<<13>> :> "KEY_ENTER") @@ (<<9>> :> "KEY_TAB")
    @@ (<<ESC, 91, 65>> :> "KEY_UP") @@ (<<ESC, 91, 66>> :> "KEY_DOWN")

\* _KEYMAP.get(key, key)
KeymapGet(k) == IF k \in DOMAIN KEYMAP THEN PyStr(KEYMAP[k]) ELSE PyBytes(k)

----------------------------------------------------------------------------
(* The input stream (fd 0).                                                *)

\* The size get_input() asks os.read for.
READ_SIZE == 32

ByteAlphabet == {ESC, 13, 97, 195, 169}

RECURSIVE SeqsUpTo(_, _)
SeqsUpTo(S, n) ==
    IF n = 0 THEN {<<>>}
    ELSE LET shorter == SeqsUpTo(S, n - 1)
         IN  shorter \cup {Append(s, b) : s \in {t \in shorter : Len(t) = n - 1}, b \in S}

\* X10 mouse reports ESC [ M <button> <col+33> <row+33>, and chunks that
\* only look like one.
MouseChunks ==
    {<<ESC, 91, 77, 33, c, r>> : c \in {33, 35}, r \in {33, 37}}
    \cup {<<ESC, 91, 77, 33, 35>>, <<ESC, 91, 77, 33, 35, 37, 33>>,
          <<97, ESC, 91, 77, 33, 35, 37>>}

\* What the terminal may have queued when a read is issued: any short run of
\* bytes (keystrokes typed fast, possibly cut inside a character; the empty
\* run is end of input), escape sequences, and a burst longer than one read.
TermInput ==
    SeqsUpTo(ByteAlphabet, MaxChunk)
    \cup MouseChunks
    \cup {<<97, 98>>, <<ESC, 91, 65>>, <<ESC, 91, 66>>, <<ESC, 91, 72>>}
    \cup {[i \in 1..(READ_SIZE + 1) |-> 97]}

\* os.read(0, n): at most n bytes of what is queued.
os_read(n) == {SubSeq(c, 1, IF Len(c) < n THEN Len(c) ELSE n) : c \in TermInput}

----------------------------------------------------------------------------
(* Widget.get_input                                                        *)

\* A buffer whose leading ESC takes everything buffered along as one candidate.
FromBufferEscWhole(buf) ==
    IF buf[1] = ESC THEN [cand |-> buf, rest |-> <<>>]
    ELSE [cand |-> SubSeq(buf, 1, 1), rest |-> SubSeq(buf, 2, Len(buf))]

\* key = self.kbuf[0:1]; self.kbuf = self.kbuf[1:]
FromBuffer(buf) ==
    [cand |-> SubSeq(buf, 1, 1), rest |-> SubSeq(buf, 2, Len(buf))]

\* The exception the handling of a freshly read chunk ends with: key[0] of an
\* empty chunk, key.decode() of bytes that are not UTF-8.
ReadRaises(chunk) ==
    IF chunk = <<>> THEN "IndexError"
    ELSE IF chunk[1] # ESC /\ ~Utf8Valid(chunk) THEN "UnicodeDecodeError"
    ELSE "none"

\* A read that leaves the whole chunk in the buffer, its first character too.
FromReadKeepsAll(chunk) ==
    IF chunk[1] # ESC
    THEN LET text == Utf8Decode(chunk)
         IN  [cand |-> Utf8Encode(SubSeq(text, 1, 1)), rest |-> Utf8Encode(text)]
    ELSE [cand |-> chunk, rest |-> <<>>]

\* if key[0] != 0x1b: key = key.decode(); self.kbuf = key[1:].encode();
\* key = key[0:1].encode().  An escape-prefixed chunk is kept whole and kbuf
\* stays as it was (empty).
FromRead(chunk) ==
    IF chunk[1] # ESC
    THEN LET text == Utf8Decode(chunk)
         IN  [cand |-> Utf8Encode(SubSeq(text, 1, 1)),
              rest |-> Utf8Encode(SubSeq(text, 2, Len(text)))]
    ELSE [cand |-> chunk, rest |-> <<>>]

\* A mouse test that accepts longer sequences too.
IsMouseReportAtLeast6(k) ==
    /\ k.tag = "bytes"
    /\ Len(k.val) >= 6
    /\ SubSeq(k.val, 1, 3) = <<ESC, 91, 77>>

\* isinstance(key, bytes) and key.startswith(b"\x1b[M") and len(key) == 6
IsMouseReport(k) ==
    /\ k.tag = "bytes"
    /\ Len(k.val) >= 3
    /\ SubSeq(k.val, 1, 3) = <<ESC, 91, 77>>
    /\ Len(k.val) = 6

\* The value get_input() returns for a candidate: the key table's entry or the
\* candidate itself, and [col, row] for a mouse report (row = key[5] - 33,
\* col = key[4] - 33, counting bytes from 0).
Resolve(cand) ==
    LET k == KeymapGet(cand)
    IN  IF IsMouseReport(k) THEN PyList(k.val[5] - 33, k.val[6] - 33) ELSE k

----------------------------------------------------------------------------
(* Widget.handle_input and Widget.loop                                     *)

\* A loop that takes True for a result to return.
LoopStopsOnTrue(r) == r # PyNone

\* if res is not None and res is not True: return res
LoopStops(r) == r # PyNone /\ r # PyTrue

\* A dispatch that hands the mouse handler the row first.
HandlerCallRowFirst(inp) ==
    IF inp.tag = "list"
    THEN [fn |-> "handle_mouse", args |-> <<inp.val[2], inp.val[1]>>, inp |-> inp]
    ELSE [fn |-> "handle_key", args |-> <<>>, inp |-> inp]

\* if isinstance(inp, list): self.handle_mouse(inp[0], inp[1])
\* else: self.handle_key(inp)
HandlerCall(inp) ==
    IF inp.tag = "list"
    THEN [fn |-> "handle_mouse", args |-> <<inp.val[1], inp.val[2]>>, inp |-> inp]
    ELSE [fn |-> "handle_key", args |-> <<>>, inp |-> inp]

Step(op, v) == [op |-> op, val |-> v]

Push(l, e) ==
    LET all == Append(l, e)
    IN  IF Len(all) > LogWindow THEN Tail(all) ELSE all

\* The caller enters loop(): self.redraw(), then the first iteration.
LoopStart ==
    /\ pc \in {"idle", "returned", "raised"}
    /\ pc' = "get_input"
    /\ log' = <<Step("redraw", PyNone)>>
    /\ key' = NoValue
    /\ res' = PyNone
    /\ ret' = PyNone
    /\ raised' = "none"
    /\ reads' = <<>>
    /\ handled' = <<>>
    /\ UNCHANGED <<widgetVars, kbuf_pre, last_read, served, sigVars, selVars, ttyVars, scrVars>>

\* key = self.get_input(), with one os.read because the buffer is empty.
GetInputReadFrom(queued) ==
    \E chunk \in queued :
        /\ reads' = <<READ_SIZE>>
        /\ last_read' = chunk
        /\ raised' = ReadRaises(chunk)
        /\ IF ReadRaises(chunk) # "none"
           THEN /\ pc' = "raised"
                /\ served' = <<>>
                /\ UNCHANGED <<kbuf, key>>
           ELSE LET f == FromRead(chunk)
                IN  /\ kbuf' = f.rest
                    /\ key' = Resolve(f.cand)
                    /\ served' = <<Resolve(f.cand)>>
                    /\ pc' = "handle_input"

GetInputRead == GetInputReadFrom(os_read(READ_SIZE))

\* A get_input() that reads although bytes are buffered.
GetInputBufferedReads == GetInputRead

\* key = self.get_input(), served from the lookahead buffer.
GetInputBuffered ==
    /\ LET f == FromBuffer(kbuf)
       IN  /\ kbuf' = f.rest
           /\ key' = Resolve(f.cand)
           /\ served' = Append(served, Resolve(f.cand))
    /\ reads' = <<>>
    /\ raised' = "none"
    /\ pc' = "handle_input"
    /\ UNCHANGED last_read

\* One get_input() of the loop, with the given chunks queued at the terminal.
LoopGetInputFrom(queued) ==
    /\ pc = "get_input"
    /\ kbuf_pre' = kbuf
    /\ IF kbuf # <<>> THEN GetInputBuffered ELSE GetInputReadFrom(queued)
    /\ log' = Push(log, Step("get_input", PyNone))
    /\ UNCHANGED <<signals, choice, items, res, ret, handled, sigVars, selVars, ttyVars, scrVars>>

\* get_input() with anything the terminal may have queued.
LoopGetInput == LoopGetInputFrom(os_read(READ_SIZE))

\* res = self.handle_input(key): the concrete widget's handler runs and
\* returns what it likes.
LoopHandleInput ==
    /\ pc = "handle_input"
    /\ \E r \in HandlerResults :
        /\ res' = r
        /\ log' = Push(log, Step("handle_input", r))
    /\ handled' = <<HandlerCall(key)>>
    /\ pc' = "check"
    /\ UNCHANGED <<widgetVars, key, ret, raised, reads, kbuf_pre, last_read, served,
                   sigVars, selVars, ttyVars, scrVars>>

\* if res is not None and res is not True: return res -- else the next
\* iteration.
LoopCheck ==
    /\ pc = "check"
    /\ IF LoopStops(res)
       THEN /\ pc' = "returned"
            /\ ret' = res
            /\ log' = Push(log, Step("return", res))
       ELSE /\ pc' = "get_input"
            /\ UNCHANGED <<ret, log>>
    /\ UNCHANGED <<widgetVars, key, res, raised, reads, handled, kbuf_pre, last_read,
                   served, sigVars, selVars, ttyVars, scrVars>>

----------------------------------------------------------------------------
(* Widget.on and Widget.signal                                             *)

\* The widget instances, the signal names and the callbacks of a client.
Widgets  == {"w1", "w2"}
SigNames == {"changed", "click"}
Handlers == 1..NumHandlers

\* An empty dict, `d[k] = v`, and `k in d`.
EmptyDict        == <<>>
DictSet(d, k, v) == (k :> v) @@ d
DictHas(d, k)    == k \in DOMAIN d

\* A registry that keeps the first handler of a name.
OnStoresKeepsFirst(d, sig, h) == IF DictHas(d, sig) THEN d ELSE DictSet(d, sig, h)

\* self.signals[sig] = handler
OnStores(d, sig, h) == DictSet(d, sig, h)

\* if sig in self.signals: self.signals[sig](self) -- the calls it makes, as
\* <<handler, argument>>.
SignalCalls(w, sig) ==
    IF DictHas(signals[w], sig) THEN << <<signals[w][sig], w>> >> ELSE <<>>

\* The exception signal() ends with: none, whether or not sig is registered.
SignalRaises(w, sig) == "none"

On(w, sig, h) ==
    /\ pc = "idle"
    /\ signals' = [signals EXCEPT ![w] = OnStores(@, sig, h)]
    /\ last_on' = [last_on EXCEPT ![<<w, sig>>] = h]
    /\ invoked' = <<>>
    /\ last_sig' = <<>>
    /\ raised' = "none"
    /\ UNCHANGED <<kbuf, choice, items, loopVars, selVars, ttyVars, scrVars>>

Signal(w, sig) ==
    /\ pc = "idle"
    /\ invoked' = SignalCalls(w, sig)
    /\ raised' = SignalRaises(w, sig)
    /\ last_sig' = <<w, sig>>
    /\ UNCHANGED <<widgetVars, loopVars, last_on, selVars, ttyVars, scrVars>>

----------------------------------------------------------------------------
(* ItemSelWidget.move_sel                                                  *)

\* The ItemSelWidget among the widgets.
Self == "w1"

Directions == (0 - MaxDir)..MaxDir

\* A remainder that takes the sign of the dividend, as C's % does.
MoveSelChoiceTruncated(c, d, n) ==
    IF c + d >= 0 THEN (c + d) % n ELSE 0 - ((0 - (c + d)) % n)

\* A selection that stops at the ends of the list.
MoveSelChoiceClamped(c, d, n) ==
    IF c + d < 0 THEN 0 ELSE IF c + d > n - 1 THEN n - 1 ELSE c + d

\* (self.choice + direction) % len(self.items), for a non-empty list.
MoveSelChoice(c, d, n) == (c + d) % n

\* A move_sel that redraws and signals first and stores the new choice last.
MoveSelStepsStoreLast(old, new) ==
    <<[op |-> "redraw", seen |-> old], [op |-> "signal", seen |-> old]>>

\* A move_sel that signals first and redraws after.
MoveSelStepsSignalFirst(old, new) ==
    <<[op |-> "signal", seen |-> new], [op |-> "redraw", seen |-> new]>>

\* What move_sel does after the assignment, in order, and the self.choice each
\* step finds (what get() returns at that point): self.redraw(), then
\* self.signal("changed").
MoveSelSteps(old, new) ==
    <<[op |-> "redraw", seen |-> new], [op |-> "signal", seen |-> new]>>

\* self.choice = ...; self.redraw(); self.signal("changed").  With no items
\* the modulus raises before anything is stored.
MoveSelBody(d) ==
    /\ last_sig' = <<>>
    /\ IF Len(items) = 0
       THEN /\ raised' = "ZeroDivisionError"
            /\ invoked' = <<>>
            /\ UNCHANGED <<choice, selVars>>
       ELSE LET c == MoveSelChoice(choice, d, Len(items))
            IN  /\ choice' = c
                /\ sel_trace' = MoveSelSteps(choice, c)
                /\ invoked' = SignalCalls(Self, "changed")
                /\ raised' = SignalRaises(Self, "changed")
                /\ IF Len(sel_dirs) < 2
                   THEN /\ sel_dirs' = Append(sel_dirs, d)
                        /\ UNCHANGED sel_start
                   ELSE /\ sel_dirs' = <<d>>
                        /\ sel_start' = choice

\* move_sel(d), called by a client while no loop runs.
MoveSel(d) ==
    /\ pc = "idle"
    /\ MoveSelBody(d)
    /\ UNCHANGED <<kbuf, signals, items, loopVars, last_on, ttyVars, scrVars>>

\* The directions a key handler moves the selection by.
ArrowMoves == {0 - 1, 1}

RECURSIVE PushAll(_, _)
PushAll(l, es) == IF es = <<>> THEN l ELSE PushAll(Push(l, Head(es)), Tail(es))

\* res = self.handle_input(key), where the handler of an ItemSelWidget calls
\* move_sel(d) and then returns what it likes.  The steps of move_sel go to
\* the log behind the dispatch, in the order they run.
LoopHandleInputSel ==
    /\ pc = "handle_input"
    /\ handled' = <<HandlerCall(key)>>
    /\ \E d \in ArrowMoves, r \in HandlerResults :
        /\ MoveSelBody(d)
        /\ IF Len(items) = 0
           THEN /\ pc' = "raised"
                /\ log' = Push(log, Step("handle_input", PyNone))
                /\ UNCHANGED res
           ELSE /\ pc' = "check"
                /\ res' = r
                /\ log' = PushAll(Push(log, Step("handle_input", r)),
                                  [i \in 1..Len(sel_trace') |->
                                      Step(sel_trace'[i].op, PyInt(sel_trace'[i].seen))])
    /\ UNCHANGED <<kbuf, signals, items, key, ret, reads, kbuf_pre, last_read, served,
                   last_on, ttyVars, scrVars>>

----------------------------------------------------------------------------
(* Screen.init_tty and Screen.deinit_tty                                   *)

\* Terminal attributes, reduced to the local flags tty.setraw() turns off.
TermiosValues == [echo : BOOLEAN, icanon : BOOLEAN, isig : BOOLEAN, opost : BOOLEAN]

\* tty.setraw(0)
SetRaw(t) == [echo |-> FALSE, icanon |-> FALSE, isig |-> FALSE, opost |-> FALSE]

\* An init_tty that saves the attributes after setting raw mode.
init_tty_saves_raw ==
    /\ tty_op' = [op |-> "init_tty", before |-> termios]
    /\ IF isatty
       THEN /\ org_termios' = <<SetRaw(termios)>>
            /\ termios' = SetRaw(termios)
            /\ pre_init' = <<termios>>
            /\ raised' = "none"
       ELSE /\ raised' = "termios.error"
            /\ UNCHANGED <<termios, org_termios, pre_init>>
    /\ UNCHANGED <<isatty, widgetVars, loopVars, sigVars, selVars, scrVars>>

\* cls.org_termios = termios.tcgetattr(0); tty.setraw(0).  tcgetattr raises
\* termios.error when fd 0 is no terminal, before anything is stored.  On a
\* terminal both calls are taken to succeed.
init_tty ==
    /\ tty_op' = [op |-> "init_tty", before |-> termios]
    /\ IF isatty
       THEN /\ org_termios' = <<termios>>
            /\ termios' = SetRaw(termios)
            /\ pre_init' = <<termios>>
            /\ raised' = "none"
       ELSE /\ raised' = "termios.error"
            /\ UNCHANGED <<termios, org_termios, pre_init>>
    /\ UNCHANGED <<isatty, widgetVars, loopVars, sigVars, selVars, scrVars>>

\* A deinit_tty that returns quietly when nothing was saved.
deinit_tty_quiet ==
    /\ tty_op' = [op |-> "deinit_tty", before |-> termios]
    /\ raised' = "none"
    /\ termios' = IF org_termios = <<>> THEN termios ELSE org_termios[1]
    /\ UNCHANGED <<isatty, org_termios, pre_init, widgetVars, loopVars, sigVars, selVars, scrVars>>

\* termios.tcsetattr(0, termios.TCSANOW, cls.org_termios).  Reading the class
\* attribute raises AttributeError while no init_tty has stored it.
deinit_tty ==
    /\ tty_op' = [op |-> "deinit_tty", before |-> termios]
    /\ IF org_termios = <<>>
       THEN /\ raised' = "AttributeError"
            /\ UNCHANGED termios
       ELSE /\ raised' = "none"
            /\ termios' = org_termios[1]
    /\ UNCHANGED <<isatty, org_termios, pre_init, widgetVars, loopVars, sigVars, selVars, scrVars>>

----------------------------------------------------------------------------
(* Screen.wr, Screen.attr_color, Screen.wr_fixedw                          *)

\* Largest foreground and background arguments tried, and the longest text
\* and the largest width.
MaxFg    == 160
MaxFgLow == 16
MaxBg    == 10
MaxText  == 3
MaxWidth == 4

RECURSIVE DecDigits(_)
DecDigits(n) ==
    IF n < 10 THEN <<48 + n>> ELSE DecDigits(n \div 10) \o <<48 + (n % 10)>>

\* "%d" % n
Dec(n) == IF n < 0 THEN <<45>> \o DecDigits(0 - n) ELSE DecDigits(n)

\* Screen.wr of a str: bytes(s, "utf-8"), then os.write(1, s).
WrStr(text) == Utf8Encode(text)

RECURSIVE Concat(_)
Concat(ws) == IF ws = <<>> THEN <<>> ELSE Head(ws) \o Concat(Tail(ws))

\* An unpacking that forgets to reduce fg to its low four bits.
AttrColorUnpackNoMask(fg, bg) ==
    IF bg = PyInt(0 - 1) THEN [fg |-> fg, bg |-> PyInt(fg \div 16)]
    ELSE [fg |-> fg, bg |-> bg]

\* if bg == -1: bg = fg >> 4; fg &= 0xf
AttrColorUnpack(fg, bg) ==
    IF bg = PyInt(0 - 1) THEN [fg |-> fg % 16, bg |-> PyInt(fg \div 16)]
    ELSE [fg |-> fg, bg |-> bg]

\* The rest of attr_color: the sequence written for fg and bg, or the
\* exception of `assert bg <= 8`.
AttrColorEmit(fg, bg) ==
    IF bg = PyNone
    THEN IF fg > 8
         THEN [writes |-> <<<<ESC, 91>> \o Dec(fg + 30 - 8) \o <<59, 49, 109>>>>,
               raised |-> "none"]
         ELSE [writes |-> <<<<ESC, 91>> \o Dec(fg + 30) \o <<109>>>>,
               raised |-> "none"]
    ELSE IF ~(bg.val <= 8)
    THEN [writes |-> <<>>, raised |-> "AssertionError"]
    ELSE IF fg > 8
    THEN [writes |-> <<<<ESC, 91>> \o Dec(fg + 30 - 8) \o <<59>> \o Dec(bg.val + 40)
                       \o <<59, 49, 109>>>>,
          raised |-> "none"]
    ELSE [writes |-> <<<<ESC, 91, 48, 59>> \o Dec(fg + 30) \o <<59>> \o Dec(bg.val + 40)
                       \o <<109>>>>,
          raised |-> "none"]

AttrColor(fg, bg) ==
    LET u == AttrColorUnpack(fg, bg) IN AttrColorEmit(u.fg, u.bg)

\* The calls tried: any fg with bg left at -1 (a packed colour pair), and a
\* plain foreground colour with bg None or an integer.
BgValues == {PyNone} \cup {PyInt(b) : b \in (0 - 3)..MaxBg}
AttrColorArgs ==
    {<<fg, PyInt(0 - 1)>> : fg \in (0 - 1)..MaxFg}
    \cup {<<fg, bg>> : fg \in (0 - 1)..MaxFgLow, bg \in BgValues}

attr_color(fg, bg) ==
    /\ call' = [op |-> "attr_color", fg |-> fg, bg |-> bg,
                writes |-> AttrColor(fg, bg).writes]
    /\ raised' = AttrColor(fg, bg).raised
    /\ UNCHANGED <<geom, widgetVars, loopVars, sigVars, selVars, ttyVars>>

\* A slice that keeps the whole text.
PySlicePrefixKeepsAll(text, n) == text

\* s[:n], for any integer n.
PySlicePrefix(text, n) ==
    IF n >= 0 THEN SubSeq(text, 1, IF n < Len(text) THEN n ELSE Len(text))
    ELSE SubSeq(text, 1, IF Len(text) + n > 0 THEN Len(text) + n ELSE 0)

\* " " * n
Spaces(n) == [i \in 1..n |-> 32]

\* s = s[:width]; Screen.wr(s); Screen.wr(" " * (width - len(s)))
WrFixedw(text, width) ==
    LET cut == PySlicePrefix(text, width)
    IN  <<WrStr(cut), WrStr(Spaces(width - Len(cut)))>>

\* Texts of ASCII and two-byte characters, as code points.
Texts  == SeqsUpTo({97, 32, 233}, MaxText)
Widths == (0 - 1)..MaxWidth

wr_fixedw(text, width) ==
    /\ call' = [op |-> "wr_fixedw", s |-> text, width |-> width,
                writes |-> WrFixedw(text, width)]
    /\ raised' = "none"
    /\ UNCHANGED <<geom, widgetVars, loopVars, sigVars, selVars, ttyVars>>

----------------------------------------------------------------------------
(* Screen.screen_size                                                      *)

\* b"\x1b[18t", the query written.
SizeQuery == <<ESC, 91, 49, 56, 116>>

\* b"\x1b[8;", the prefix asserted on the reply.
SizePrefix == <<ESC, 91, 56, 59>>

\* The reply of a terminal of the given size: ESC [ 8 ; rows ; cols t
SizeReply(rows, cols) == SizePrefix \o Dec(rows) \o <<59>> \o Dec(cols) \o <<116>>

\* Terminal sizes tried.
ReplyRows == {5, 24}
ReplyCols == {80, 132}

\* What else os.read(0, 32) may return once fd 0 is readable: end of input, a
\* keystroke, a reply cut short, a reply followed by a keystroke, another
\* report, and replies whose fields are missing, empty, not numbers or too many.
OtherReplies ==
    { <<>>, <<97>>, <<116>>, <<ESC, 91, 65>>,
      <<ESC, 91, 56, 59, 50, 52, 59, 56, 48>>,
      <<ESC, 91, 56, 59, 50, 52, 59, 56, 48, 116, 97>>,
      <<ESC, 91, 52, 59, 50, 52, 59, 56, 48, 116>>,
      <<ESC, 91, 56, 59, 116>>,
      <<ESC, 91, 56, 59, 50, 52, 116>>,
      <<ESC, 91, 56, 59, 59, 56, 48, 116>>,
      <<ESC, 91, 56, 59, 50, 52, 59, 116>>,
      <<ESC, 91, 56, 59, 120, 59, 56, 48, 116>>,
      <<ESC, 91, 56, 59, 50, 52, 59, 56, 120, 116>>,
      <<ESC, 91, 56, 59, 50, 52, 59, 56, 48, 59, 49, 116>> }

SizeReplies == {SizeReply(r, c) : r \in ReplyRows, c \in ReplyCols} \cup OtherReplies

\* resp.startswith(prefix)
StartsWith(bs, prefix) ==
    Len(bs) >= Len(prefix) /\ SubSeq(bs, 1, Len(prefix)) = prefix

RECURSIVE SplitAt(_, _, _)
SplitAt(bs, sep, cur) ==
    IF bs = <<>> THEN <<cur>>
    ELSE IF Head(bs) = sep THEN <<cur>> \o SplitAt(Tail(bs), sep, <<>>)
    ELSE SplitAt(Tail(bs), sep, Append(cur, Head(bs)))

\* bs.split(sep), for a separator of one byte.
BytesSplit(bs, sep) == SplitAt(bs, sep, <<>>)

IsDigits(bs) == bs # <<>> /\ \A i \in 1..Len(bs) : bs[i] \in 48..57

RECURSIVE DigitsValue(_)
DigitsValue(bs) ==
    IF bs = <<>> THEN 0 ELSE 10 * DigitsValue(SubSeq(bs, 1, Len(bs) - 1)) + (bs[Len(bs)] - 48)

\* int(bs) succeeds: an optional sign and then digits.  (Blanks around the
\* number and underscores between digits do not occur in the replies tried.)
IntAccepts(bs) ==
    IF bs # <<>> /\ bs[1] \in {43, 45} THEN IsDigits(Tail(bs)) ELSE IsDigits(bs)

\* int(bs), where it succeeds.
IntValue(bs) ==
    IF bs[1] = 45 THEN 0 - DigitsValue(Tail(bs))
    ELSE IF bs[1] = 43 THEN DigitsValue(Tail(bs))
    ELSE DigitsValue(bs)

\* A return of the two fields in the order they arrive.
ScreenSizeReturnInOrder(vals) == <<IntValue(vals[2]), IntValue(vals[3])>>

\* return (int(vals[2]), int(vals[1])), with vals indexed from 0.
ScreenSizeReturn(vals) == <<IntValue(vals[3]), IntValue(vals[2])>>

\* The assertion on the reply, the split and the conversion.  vals[2] is
\* converted first, so a reply of fewer than three fields raises IndexError.
ScreenSizeParse(resp) ==
    IF ~(StartsWith(resp, SizePrefix) /\ Len(resp) >= 1 /\ resp[Len(resp)] = 116)
    THEN [raised |-> "AssertionError", result |-> <<>>]
    ELSE LET vals == BytesSplit(SubSeq(resp, 1, Len(resp) - 1), 59)
         IN  IF Len(vals) < 3 THEN [raised |-> "IndexError", result |-> <<>>]
             ELSE IF ~IntAccepts(vals[3]) \/ ~IntAccepts(vals[2])
             THEN [raised |-> "ValueError", result |-> <<>>]
             ELSE [raised |-> "none", result |-> ScreenSizeReturn(vals)]

\* cls.wr(query); select on fd 0 for 0.2 s; with nothing readable return
\* (80, 24), otherwise read up to 32 bytes and parse them.
screen_size(ready, resp) ==
    /\ call' = [op |-> "screen_size", writes |-> <<SizeQuery>>, ready |-> ready,
                reads |-> IF ready THEN <<READ_SIZE>> ELSE <<>>,
                resp |-> IF ready THEN resp ELSE <<>>,
                result |-> IF ready THEN ScreenSizeParse(resp).result ELSE <<80, 24>>]
    /\ raised' = IF ready THEN ScreenSizeParse(resp).raised ELSE "none"
    /\ UNCHANGED <<geom, widgetVars, loopVars, sigVars, selVars, ttyVars>>

----------------------------------------------------------------------------
(* Widget.set_xy and Widget.inside                                         *)

\* Largest widget position and size tried.
MaxX == 5
MaxY == 3
MaxW == 4
MaxH == 2

\* An inclusion test whose right and bottom edges are closed.
InsideClosed(g, x, y) ==
    g.y <= y /\ y <= g.y + g.h /\ g.x <= x /\ x <= g.x + g.w

\* self.y <= y < self.y + self.h and self.x <= x < self.x + self.w
Inside(g, x, y) ==
    g.y <= y /\ y < g.y + g.h /\ g.x <= x /\ x < g.x + g.w

\* self.x = x; self.y = y
set_xy(x, y) ==
    /\ geom' = [geom EXCEPT !.placed = TRUE, !.x = x, !.y = y]
    /\ call' = [op |-> "set_xy", x |-> x, y |-> y, result |-> <<>>]
    /\ raised' = "none"
    /\ UNCHANGED <<widgetVars, loopVars, sigVars, selVars, ttyVars>>

\* inside(x, y).  Before any set_xy the widget has no attribute y, and
\* reading it raises AttributeError.
inside(x, y) ==
    /\ call' = [op |-> "inside", x |-> x, y |-> y,
                result |-> IF geom.placed THEN <<Inside(geom, x, y)>> ELSE <<>>]
    /\ raised' = IF geom.placed THEN "none" ELSE "AttributeError"
    /\ UNCHANGED <<geom, widgetVars, loopVars, sigVars, selVars, ttyVars>>

----------------------------------------------------------------------------
(* Specifications.                                                       *)

\* A widget whose derived class has not set w and h, and which has no x, y.
NoGeom == [placed |-> FALSE, x |-> 0, y |-> 0, w |-> 0, h |-> 0]

\* No Screen call has been made.
NoCall == [op |-> "none"]

\* Widget.__init__ (and ItemSelWidget.__init__ for Self), before any call.
InitWidget ==
    /\ kbuf = <<>>
    /\ signals = [w \in Widgets |-> EmptyDict]
    /\ choice = 0
    /\ pc = "idle"
    /\ key = NoValue
    /\ res = PyNone
    /\ ret = PyNone
    /\ raised = "none"
    /\ reads = <<>>
    /\ handled = <<>>
    /\ invoked = <<>>
    /\ log = <<>>
    /\ kbuf_pre = <<>>
    /\ last_read = <<>>
    /\ served = <<>>
    /\ last_on = [x \in Widgets \X SigNames |-> 0]
    /\ last_sig = <<>>
    /\ sel_start = 0
    /\ sel_dirs = <<>>
    /\ sel_trace = <<>>
    /\ call = NoCall

\* The process starts with no saved attributes.
InitScreen ==
    /\ org_termios = <<>>
    /\ pre_init = <<>>
    /\ tty_op = [op |-> "none", before |-> termios]

\* A widget running its input loop on a terminal.
Init ==
    /\ InitWidget
    /\ items = <<>>
    /\ geom = NoGeom
    /\ isatty = TRUE
    /\ termios = SetRaw([echo |-> TRUE, icanon |-> TRUE, isig |-> TRUE, opost |-> TRUE])
    /\ InitScreen

Next ==
    \/ LoopStart
    \/ LoopGetInput
    \/ LoopHandleInput
    \/ LoopCheck

Spec == Init /\ [][Next]_vars

\* Clients registering callbacks on widgets and emitting signals.
NextSignal ==
    \/ \E w \in Widgets, sig \in SigNames, h \in Handlers : On(w, sig, h)
    \/ \E w \in Widgets, sig \in SigNames : Signal(w, sig)

SpecSignal == Init /\ [][NextSignal]_vars

\* An ItemSelWidget of any length whose selection is moved about, with
\* "changed" callbacks registered on it.
InitSel ==
    /\ InitWidget
    /\ items \in {[i \in 1..n |-> i] : n \in 0..MaxItems}
    /\ geom = NoGeom
    /\ isatty = TRUE
    /\ termios = SetRaw([echo |-> TRUE, icanon |-> TRUE, isig |-> TRUE, opost |-> TRUE])
    /\ InitScreen

NextSel ==
    \/ \E d \in Directions : MoveSel(d)
    \/ \E h \in Handlers : On(Self, "changed", h)

SpecSel == InitSel /\ [][NextSel]_vars

\* A process entering and leaving raw mode, whatever fd 0 is.
InitTty ==
    /\ InitWidget
    /\ items = <<>>
    /\ geom = NoGeom
    /\ isatty \in BOOLEAN
    /\ termios \in TermiosValues
    /\ InitScreen

NextTty ==
    \/ init_tty
    \/ deinit_tty

SpecTty == InitTty /\ [][NextTty]_vars

\* A client drawing on the screen.
NextScreen ==
    \/ \E a \in AttrColorArgs : attr_color(a[1], a[2])
    \/ \E text \in Texts, width \in Widths : wr_fixedw(text, width)
    \/ \E ready \in BOOLEAN, resp \in SizeReplies : screen_size(ready, resp)

SpecScreen == Init /\ [][NextScreen]_vars

\* What the terminal queues for a selection widget: arrow keys, a letter, and
\* two keystrokes in one read.
KeyInput == {<<ESC, 91, 65>>, <<ESC, 91, 66>>, <<97>>, <<13, 97>>}

\* An ItemSelWidget running its loop; its key handler moves the selection on
\* some keys and leaves it alone on others.
NextSelLoop ==
    \/ \E h \in Handlers : On(Self, "changed", h)
    \/ LoopStart
    \/ LoopGetInputFrom(KeyInput)
    \/ LoopHandleInput
    \/ LoopHandleInputSel
    \/ LoopCheck

SpecSelLoop == InitSel /\ [][NextSelLoop]_vars

\* A widget whose derived class fixed its size, placed and probed with points.
InitGeom ==
    /\ InitWidget
    /\ items = <<>>
    /\ geom \in {[placed |-> FALSE, x |-> 0, y |-> 0, w |-> w, h |-> h] :
                    w \in {0, MaxW}, h \in {0, MaxH}}
    /\ isatty = TRUE
    /\ termios = SetRaw([echo |-> TRUE, icanon |-> TRUE, isig |-> TRUE, opost |-> TRUE])
    /\ InitScreen

NextGeom ==
    \/ \E x \in 0..MaxX, y \in 0..MaxY : set_xy(x, y)
    \/ \E x \in 0..(MaxX + MaxW), y \in 0..(MaxY + MaxH) : inside(x, y)

SpecGeom == InitGeom /\ [][NextGeom]_vars

----------------------------------------------------------------------------
(* Properties of Widget.loop and Widget.get_input, under Spec.             *)

Continues(v) == v = PyNone \/ v = PyTrue

\* C1: loop() redraws once before the first get_input, then alternates
\* get_input and handle_input; it returns exactly when the handler's result is
\* neither None nor True, returns that very result, and decodes nothing after
\* it; after a result of None or True the next step is the next get_input.
C1_LoopContract ==
    /\ (pc # "idle") =>
          /\ log # <<>>
          /\ (Len(log) < LogWindow => log[1].op = "redraw")
    /\ \A i \in 1..Len(log) :
          /\ (log[i].op = "redraw" => i = 1)
          /\ (log[i].op = "return" => i = Len(log))
          /\ (i >= 2 /\ log[i].op = "get_input") =>
                \/ log[i - 1].op = "redraw"
                \/ log[i - 1].op = "handle_input" /\ Continues(log[i - 1].val)
          /\ (i >= 2 /\ log[i].op = "handle_input") => log[i - 1].op = "get_input"
          /\ (i >= 2 /\ log[i].op = "return") =>
                /\ log[i - 1].op = "handle_input"
                /\ log[i - 1].val = log[i].val
                /\ ~Continues(log[i].val)
          /\ (i < Len(log) /\ log[i].op = "handle_input") =>
                IF Continues(log[i].val)
                THEN log[i + 1].op = "get_input"
                ELSE log[i + 1] = Step("return", log[i].val)
    /\ (pc = "returned") <=> (log # <<>> /\ log[Len(log)].op = "return")
    /\ (pc = "returned") => (ret = res /\ ~Continues(res) /\ log[Len(log)].val = ret)
    /\ (pc = "get_input" /\ log[Len(log)].op = "handle_input") => Continues(res)

\* loop() has returned False, a result that is not None and not True, and has
\* left undecoded input in the buffer.
C1_Witness ==
    /\ pc = "returned"
    /\ ret = PyFalse
    /\ kbuf # <<>>
    /\ Len(log) = 3
    /\ log[1].op = "get_input"

\* The bytes get_input() looked up in the key table on its last call.
Candidate ==
    IF kbuf_pre # <<>> THEN <<kbuf_pre[1]>>
    ELSE IF last_read[1] = ESC THEN last_read
    ELSE SubSeq(last_read, 1, Utf8SeqLen(last_read[1]))

HasMousePrefix(b) == Len(b) >= 3 /\ b[1] = ESC /\ b[2] = 91 /\ b[3] = 77

\* C3: a get_input() call issues a read only when the lookahead buffer is
\* empty: entered with a non-empty buffer it reads nothing and takes one byte
\* off the buffer; entered with an empty buffer it issues exactly one read, of
\* up to 32 bytes; and a call that returns, returns one input event.
C3_ReadOnlyWhenBufferEmpty ==
    (pc \in {"handle_input", "raised"}) =>
        /\ (kbuf_pre # <<>>) =>
              /\ reads = <<>>
              /\ pc = "handle_input"
              /\ kbuf = Tail(kbuf_pre)
        /\ (kbuf_pre = <<>>) =>
              /\ reads = <<32>>
              /\ Len(last_read) <= 32
        /\ (pc = "handle_input") =>
              /\ key.tag \in {"list", "str", "bytes"}
              /\ served # <<>>
              /\ served[Len(served)] = key

\* get_input() has been served from a buffer that a 32-byte read filled.
C3_Witness ==
    /\ pc = "handle_input"
    /\ Len(last_read) = 32
    /\ Len(kbuf_pre) = 31
    /\ reads = <<>>
    /\ key = PyBytes(<<97>>)

\* C4: after a read of n UTF-8 characters that does not start with ESC, the
\* next n get_input() calls return those n characters, one per call and in
\* order, each looked up in the key table, and the buffer is empty only once
\* all n have been returned.
C4_ChunkServedAsKeystrokes ==
    (last_read # <<>> /\ last_read[1] # ESC /\ Utf8Valid(last_read)) =>
        LET text == Utf8Decode(last_read)
        IN  /\ Len(served) <= Len(text)
            /\ \A i \in 1..Len(served) :
                  i <= Len(text) => served[i] = KeymapGet(Utf8EncodeChar(text[i]))
            /\ (kbuf = <<>> => Len(served) = Len(text))

\* C5: get_input() returns [col, row] exactly when the looked-up value is
\* bytes that start with ESC [ M and are 6 long, with col = byte 4 - 33 and
\* row = byte 5 - 33 (bytes counted from 0); a chunk with the mouse prefix of
\* any other length comes back as the raw bytes.
C5_MouseDecode ==
    (pc = "handle_input") =>
        LET c == Candidate
        IN  /\ (key.tag = "list") <=>
                  (c \notin DOMAIN KEYMAP /\ HasMousePrefix(c) /\ Len(c) = 6)
            /\ (key.tag = "list") => key.val = <<c[5] - 33, c[6] - 33>>
            /\ (HasMousePrefix(c) /\ Len(c) # 6) => key = PyBytes(c)

\* ESC [ M <33> <35> <37> has been decoded to column 2, row 4.
C5_Witness ==
    /\ pc = "handle_input"
    /\ last_read = <<ESC, 91, 77, 33, 35, 37>>
    /\ kbuf_pre = <<>>
    /\ key = PyList(2, 4)

\* C17: handle_input calls exactly one handler and returns its result as it
\* is: handle_mouse(col, row), in that order, for a mouse click and
\* handle_key(key) for a named key or raw bytes.
C17_DispatchOneHandler ==
    (pc = "check") =>
        /\ Len(handled) = 1
        /\ log[Len(log)].op = "handle_input"
        /\ res = log[Len(log)].val
        /\ (key.tag = "list") =>
              /\ handled[1].fn = "handle_mouse"
              /\ handled[1].args = <<last_read[5] - 33, last_read[6] - 33>>
        /\ (key.tag # "list") =>
              /\ key.tag \in {"str", "bytes"}
              /\ handled[1].fn = "handle_key"
              /\ handled[1].args = <<>>
              /\ handled[1].inp = key

\* A click at column 2, row 4 went to handle_mouse(2, 4), whose result
\* ACTION_OK handle_input returned.
C17_Witness ==
    /\ pc = "check"
    /\ key = PyList(2, 4)
    /\ handled = <<[fn |-> "handle_mouse", args |-> <<2, 4>>, inp |-> PyList(2, 4)]>>
    /\ res = PyInt(ACTION_OK)

\* C18: only a fresh read is tested for a leading ESC.  A fresh read that
\* starts with ESC is one candidate as a whole and leaves the buffer empty; an
\* ESC taken from the buffer is a candidate of one byte, and the bytes behind
\* it stay buffered for later calls.
C18_EscapeTestOnFreshReadsOnly ==
    (pc = "handle_input") =>
        /\ (kbuf_pre = <<>> /\ last_read[1] = ESC) =>
              /\ kbuf = <<>>
              /\ \/ key = KeymapGet(last_read)
                 \/ /\ Len(last_read) = 6
                    /\ key = PyList(last_read[5] - 33, last_read[6] - 33)
        /\ (kbuf_pre # <<>> /\ kbuf_pre[1] = ESC) =>
              /\ reads = <<>>
              /\ key = KeymapGet(<<ESC>>)
              /\ kbuf = Tail(kbuf_pre)

\* A mouse report that arrived behind a keystroke: its ESC came out of the
\* buffer alone and the five bytes behind it are still buffered.
C18_Witness ==
    /\ pc = "handle_input"
    /\ last_read = <<97, ESC, 91, 77, 33, 35, 37>>
    /\ kbuf_pre = <<ESC, 91, 77, 33, 35, 37>>
    /\ kbuf = <<91, 77, 33, 35, 37>>
    /\ key = KeymapGet(<<ESC>>)

\* C20: the buffer never holds more than 31 bytes; a get_input() entered with a
\* non-empty buffer reads nothing, takes exactly the first byte off it and
\* looks up that one byte, so it never returns a mouse click and the buffer
\* is empty after as many such calls as it held bytes; a read is issued only
\* on an empty buffer.
C20_BufferBounded ==
    /\ Len(kbuf) <= 31
    /\ (pc = "handle_input" /\ kbuf_pre # <<>>) =>
          /\ reads = <<>>
          /\ Len(kbuf) = Len(kbuf_pre) - 1
          /\ kbuf_pre = <<kbuf_pre[1]>> \o kbuf
          /\ key = KeymapGet(<<kbuf_pre[1]>>)
          /\ key.tag # "list"
    /\ (pc \in {"handle_input", "raised"} /\ reads # <<>>) => kbuf_pre = <<>>

\* A read of 32 bytes has just filled the buffer with 31 of them.
C20_Witness ==
    /\ pc = "handle_input"
    /\ kbuf_pre = <<>>
    /\ reads = <<READ_SIZE>>
    /\ Len(last_read) = 32
    /\ Len(kbuf) = 31

----------------------------------------------------------------------------
(* Properties of the signal registry, under SpecSignal.                    *)

\* C2: signal(name) on a widget with no handler registered for name fails
\* (KeyError, the registry's "unbound signal").
C2_UnboundSignalRaises ==
    (last_sig # <<>> /\ ~DictHas(signals[last_sig[1]], last_sig[2])) =>
        raised = "KeyError"

----------------------------------------------------------------------------
(* Properties of ItemSelWidget.move_sel, under SpecSel.                    *)

\* C6: with a non-empty item list of length n, 0 <= choice < n after
\* construction and after every move_sel, whatever the directions.
C6_ChoiceInRange ==
    (Len(items) > 0) => (choice >= 0 /\ choice < Len(items))

\* A jump back by more than the list's length has wrapped to the last item.
C6_Witness ==
    /\ Len(items) = 3
    /\ sel_dirs = <<0 - 4>>
    /\ sel_start = 0
    /\ choice = 2

\* C7: move_sel(d1) then move_sel(d2) leaves choice where a single
\* move_sel(d1 + d2) from the same start leaves it, and where the two moves
\* in the opposite order leave it.
C7_MovesCompose ==
    (Len(items) > 0 /\ Len(sel_dirs) = 2) =>
        LET n  == Len(items)
            d1 == sel_dirs[1]
            d2 == sel_dirs[2]
        IN  /\ choice = MoveSelChoice(sel_start, d1 + d2, n)
            /\ choice = MoveSelChoice(MoveSelChoice(sel_start, d2, n), d1, n)

\* Two moves that both wrap, from a start other than 0.
C7_Witness ==
    /\ Len(items) = 3
    /\ sel_start = 1
    /\ sel_dirs = <<4, 0 - 3>>
    /\ choice = 2

\* C19: move_sel stores the new choice before it redraws and before it emits
\* "changed": the redraw and the signal, in that order, both find the updated
\* self.choice, which is what get() returns to a handler.
C19_ChoiceStoredFirst ==
    (Len(items) > 0 /\ sel_dirs # <<>>) =>
        LET n    == Len(items)
            prev == IF Len(sel_dirs) = 1 THEN sel_start
                    ELSE (sel_start + sel_dirs[1]) % n
            new  == (prev + sel_dirs[Len(sel_dirs)]) % n
        IN  /\ choice = new
            /\ Len(sel_trace) = 2
            /\ sel_trace[1].op = "redraw"
            /\ sel_trace[2].op = "signal"
            /\ \A i \in 1..2 : sel_trace[i].seen = new
            /\ (invoked # <<>>) =>
                  (invoked = << <<signals[Self]["changed"], Self>> >>)

\* A move from item 0 to item 1 whose "changed" handler ran and found 1.
C19_Witness ==
    /\ Len(items) = 3
    /\ sel_start = 0
    /\ sel_dirs = <<1>>
    /\ choice = 1
    /\ invoked = << <<1, Self>> >>
    /\ sel_trace[2] = [op |-> "signal", seen |-> 1]

----------------------------------------------------------------------------
(* Properties of raw mode, under SpecTty.                                  *)

\* C8: after init_tty followed by deinit_tty the terminal attributes are the
\* ones in force just before that init_tty, whatever they were.
C8_RawModeRoundTrip ==
    (tty_op.op = "deinit_tty" /\ raised = "none") =>
        (pre_init # <<>> /\ termios = pre_init[1])

\* A terminal that echoed and cooked its input is back to that after
\* deinit_tty.
C8_Witness ==
    /\ tty_op.op = "deinit_tty"
    /\ raised = "none"
    /\ tty_op.before = SetRaw(termios)
    /\ termios = [echo |-> TRUE, icanon |-> TRUE, isig |-> TRUE, opost |-> FALSE]

\* C9: deinit_tty with no init_tty completed before it fails and leaves the
\* terminal attributes as they were.
C9_DeinitWithoutInit ==
    (tty_op.op = "deinit_tty" /\ pre_init = <<>>) =>
        (raised # "none" /\ termios = tty_op.before)

\* deinit_tty has failed in a process whose fd 0 is no terminal, so that no
\* init_tty can have completed.
C9_Witness ==
    /\ tty_op.op = "deinit_tty"
    /\ pre_init = <<>>
    /\ ~isatty
    /\ raised = "AttributeError"
    /\ termios.echo

----------------------------------------------------------------------------
(* Properties of the Screen primitives, under SpecScreen.                  *)

\* C11: for every bg in 0..8 and fg_low in 0..15, attr_color(bg*16 + fg_low)
\* with bg left at -1 writes what attr_color(fg_low, bg) writes.
C11_PackedEqualsExplicit ==
    (call.op = "attr_color" /\ call.bg = PyInt(0 - 1)) =>
        \A b \in 0..8, f \in 0..15 :
            (call.fg = b * 16 + f) =>
                /\ raised = "none"
                /\ call.writes = AttrColor(f, PyInt(b)).writes
                /\ call.writes # <<>>

\* attr_color(0x4b) has written bold red on blue, as attr_color(11, 4) does.
C11_Witness ==
    /\ call.op = "attr_color"
    /\ call.fg = 75
    /\ call.bg = PyInt(0 - 1)
    /\ call.writes = <<<<ESC, 91, 51, 51, 59, 52, 52, 59, 49, 109>>>>

\* C12: attr_color(fg, bg) with an explicit bg (not -1, not None) outside
\* 0..8, above or below, fails and writes nothing.
C12_BgOutOfRangeFails ==
    (/\ call.op = "attr_color"
     /\ call.bg.kind = "int"
     /\ call.bg.val # 0 - 1
     /\ (call.bg.val > 8 \/ call.bg.val < 0)) =>
        (raised # "none" /\ call.writes = <<>>)

\* C13: wr_fixedw(s, w) with w >= 0 writes exactly w characters: s and then
\* w - len(s) spaces when len(s) <= w, the first w characters of s otherwise.
C13_FixedWidth ==
    (call.op = "wr_fixedw" /\ call.width >= 0) =>
        LET out == Concat(call.writes)
            n   == Len(call.s)
            w   == call.width
        IN  /\ Utf8Valid(out)
            /\ Len(Utf8Decode(out)) = w
            /\ (n <= w) => Utf8Decode(out) = call.s \o [i \in 1..(w - n) |-> 32]
            /\ (n > w) => Utf8Decode(out) = [i \in 1..w |-> call.s[i]]

\* A text of three characters, one of them two bytes long, has been cut to
\* its first two.
C13_Witness ==
    /\ call.op = "wr_fixedw"
    /\ call.s = <<97, 233, 97>>
    /\ call.width = 2
    /\ Concat(call.writes) = <<97, 195, 169>>

\* C14: screen_size writes the size query and then ends in one of three
\* ways: with nothing to read it returns (80, 24) and reads nothing; on a
\* reply ESC [ 8 ; rows ; cols t it returns (cols, rows); on a reply without
\* that prefix or without the final t it fails and returns no size.
C14_ScreenSizeOutcomes ==
    (call.op = "screen_size") =>
        /\ call.writes = <<SizeQuery>>
        /\ (~call.ready) =>
               (call.result = <<80, 24>> /\ call.reads = <<>> /\ raised = "none")
        /\ call.ready => call.reads = <<READ_SIZE>>
        /\ \A r \in ReplyRows, c \in ReplyCols :
               (call.ready /\ call.resp = SizeReply(r, c)) =>
                   (call.result = <<c, r>> /\ raised = "none")
        /\ (call.ready /\ ~(/\ Len(call.resp) >= 5
                            /\ SubSeq(call.resp, 1, 4) = <<ESC, 91, 56, 59>>
                            /\ call.resp[Len(call.resp)] = 116)) =>
               (raised = "AssertionError" /\ call.result = <<>>)
        /\ \/ raised = "none" /\ Len(call.result) = 2
           \/ raised # "none" /\ call.result = <<>>

\* A terminal of 5 rows and 132 columns has
\* answered and (132, 5) was returned.
C14_Witness ==
    /\ call.op = "screen_size"
    /\ call.ready
    /\ call.resp = <<ESC, 91, 56, 59, 53, 59, 49, 51, 50, 116>>
    /\ call.result = <<132, 5>>
    /\ raised = "none"

----------------------------------------------------------------------------
(* Properties of widget geometry, under SpecGeom.                          *)

\* C15 as stated: inside(px, py) is true exactly when y <= py < y + h and
\* x <= px < x + w, and a widget at x=5, y=3 of w=4, h=2 contains (5,3) and
\* (5,4) and does not contain (8,3) and (8,4).
C15_HalfOpenRectangle ==
    (call.op = "inside" /\ geom.placed) =>
        /\ raised = "none"
        /\ call.result =
               <<(/\ call.x \in geom.x..(geom.x + geom.w - 1)
                  /\ call.y \in geom.y..(geom.y + geom.h - 1))>>
        /\ (geom.x = 5 /\ geom.y = 3 /\ geom.w = 4 /\ geom.h = 2) =>
               /\ (<<call.x, call.y>> \in {<<5, 3>>, <<5, 4>>}) => call.result = <<TRUE>>
               /\ (<<call.x, call.y>> \in {<<8, 3>>, <<8, 4>>}) => call.result = <<FALSE>>

\* C15, amended: inside(px, py) is true exactly when y <= py < y + h and
\* x <= px < x + w; a widget at x=5, y=3 of w=4, h=2 spans columns 5..8 and
\* rows 3..4, so it contains (5,3), (5,4), (8,3) and (8,4) and does not
\* contain (9,3), (9,4), (5,5) and (8,5).
C15_HalfOpenRectangleExample ==
    (call.op = "inside" /\ geom.placed) =>
        /\ raised = "none"
        /\ call.result =
               <<(/\ call.x \in geom.x..(geom.x + geom.w - 1)
                  /\ call.y \in geom.y..(geom.y + geom.h - 1))>>
        /\ (geom.x = 5 /\ geom.y = 3 /\ geom.w = 4 /\ geom.h = 2) =>
               /\ (<<call.x, call.y>> \in {<<5, 3>>, <<5, 4>>, <<8, 3>>, <<8, 4>>})
                      => call.result = <<TRUE>>
               /\ (<<call.x, call.y>> \in {<<9, 3>>, <<9, 4>>, <<5, 5>>, <<8, 5>>})
                      => call.result = <<FALSE>>

\* The widget of the example has been asked about (9, 4), one column past
\* its last one, and said no.
C15_Witness ==
    /\ geom = [placed |-> TRUE, x |-> 5, y |-> 3, w |-> 4, h |-> 2]
    /\ call.op = "inside"
    /\ call.x = 9
    /\ call.y = 4
    /\ call.result = <<FALSE>>

----------------------------------------------------------------------------
(* Properties of the loop of a selection widget, under SpecSelLoop.        *)

\* A redraw or signal step that move_sel logged (the redraw loop() starts
\* with carries no choice).
OfMoveSel(e) == e.op \in {"redraw", "signal"} /\ e.val.kind = "int"

====
